---- MODULE Spec2Model ----
(***************************************************************************)
(* ShopRoute: classification resolver (cache -> external model chain ->    *)
(* keyword heuristic) and store-layout ordering of a shopping list.        *)
(*                                                                         *)
(* Strings are TLA+ strings; a character is a string of length 1.          *)
(***************************************************************************)
EXTENDS Integers, Sequences, FiniteSets, TLC

(***************************************************************************)
(* Python str primitives used by the program                               *)
(***************************************************************************)

\* The characters the model's strings are made of, in code-point order.
Alphabet == " -ABCDEFGHIJKLMNOPQRSTUVWXYZabcdefghijklmnopqrstuvwxyz"

UpperLetters == "ABCDEFGHIJKLMNOPQRSTUVWXYZ"

LowerLetters == "abcdefghijklmnopqrstuvwxyz"

CharAt(s, i) == SubSeq(s, i, i)

IndexIn(letters, c) ==
    IF \E i \in 1..Len(letters) : CharAt(letters, i) = c
    THEN CHOOSE i \in 1..Len(letters) : CharAt(letters, i) = c
    ELSE 0

\* ord(c): the position of the character in code-point order
Ord(c) == IndexIn(Alphabet, c)

IsCased(c) == IndexIn(UpperLetters, c) > 0 \/ IndexIn(LowerLetters, c) > 0

IsSpace(c) == c = " "

LowerChar(c) ==
    IF IndexIn(UpperLetters, c) > 0
    THEN CharAt(LowerLetters, IndexIn(UpperLetters, c))
    ELSE c

UpperChar(c) ==
    IF IndexIn(LowerLetters, c) > 0
    THEN CharAt(UpperLetters, IndexIn(LowerLetters, c))
    ELSE c

RECURSIVE StrLower(_)
\* str.lower()
StrLower(s) ==
    IF s = "" THEN "" ELSE LowerChar(CharAt(s, 1)) \o StrLower(Tail(s))

RECURSIVE LStrip(_)
LStrip(s) ==
    IF s # "" /\ IsSpace(CharAt(s, 1)) THEN LStrip(Tail(s)) ELSE s

RECURSIVE RStrip(_)
RStrip(s) ==
    IF s # "" /\ IsSpace(CharAt(s, Len(s)))
    THEN RStrip(SubSeq(s, 1, Len(s) - 1))
    ELSE s

\* str.strip()
StrStrip(s) == RStrip(LStrip(s))

RECURSIVE TitleFrom(_, _)
\* str.title() from a position whose previous character is cased or not
TitleFrom(s, prevCased) ==
    IF s = "" THEN ""
    ELSE LET c == CharAt(s, 1)
         IN  (IF prevCased THEN LowerChar(c) ELSE UpperChar(c))
                 \o TitleFrom(Tail(s), IsCased(c))

\* str.title(): the first cased character of every run of cased characters
\* is upper-cased, the others are lower-cased
StrTitle(s) == TitleFrom(s, FALSE)

RECURSIVE SplitFrom(_, _)
\* str.split() with the token under construction
SplitFrom(s, tok) ==
    IF s = "" THEN (IF tok = "" THEN <<>> ELSE <<tok>>)
    ELSE LET c == CharAt(s, 1)
         IN  IF IsSpace(c)
             THEN (IF tok = "" THEN <<>> ELSE <<tok>>) \o SplitFrom(Tail(s), "")
             ELSE SplitFrom(Tail(s), tok \o c)

\* str.split(): the whitespace-separated tokens
StrSplit(s) == SplitFrom(s, "")

RECURSIVE StrJoin(_)
\* ' '.join(tokens)
StrJoin(toks) ==
    IF toks = <<>> THEN ""
    ELSE IF Len(toks) = 1 THEN toks[1]
    ELSE toks[1] \o " " \o StrJoin(Tail(toks))

\* seq[:n]
Take(seq, n) == SubSeq(seq, 1, IF Len(seq) < n THEN Len(seq) ELSE n)

\* kw in s
StrContains(s, kw) ==
    \E i \in 1..(Len(s) - Len(kw) + 1) : SubSeq(s, i, i + Len(kw) - 1) = kw

RECURSIVE StrLess(_, _)
\* a < b on str: lexicographic by code point
StrLess(a, b) ==
    IF b = "" THEN FALSE
    ELSE IF a = "" THEN TRUE
    ELSE IF CharAt(a, 1) = CharAt(b, 1) THEN StrLess(Tail(a), Tail(b))
    ELSE Ord(CharAt(a, 1)) < Ord(CharAt(b, 1))

(***************************************************************************)
(* Program constants                                                       *)
(***************************************************************************)

GENERIC_LAYOUT ==
    << <<"Produce", <<"Produce">> >>,
       <<"Meat & Seafood", <<"Meat", "Seafood", "Deli">> >>,
       <<"Bakery", <<"Bakery">> >>,
       <<"Dairy", <<"Dairy">> >>,
       <<"Frozen", <<"Frozen">> >>,
       <<"Pantry", <<"Pantry">> >>,
       <<"Snacks", <<"Snacks">> >>,
       <<"Beverages", <<"Beverages">> >>,
       <<"Household", <<"Household">> >>,
       <<"Personal Care", <<"Personal Care">> >> >>

HEURISTIC_BUCKETS ==
    << <<"Meat", <<"chicken", "beef", "pork", "steak", "bacon", "sausage", "turkey", "ham", "lamb">> >>,
       <<"Seafood", <<"salmon", "shrimp", "tuna", "cod", "crab", "lobster", "scallop">> >>,
       <<"Produce", <<"banana", "apple", "spinach", "lettuce", "tomato", "onion", "potato", "carrot", "berry", "fruit", "vegetable">> >>,
       <<"Dairy", <<"milk", "yogurt", "cheese", "butter", "cream", "eggs", "egg">> >>,
       <<"Bakery", <<"bread", "bagel", "sourdough", "bun", "roll", "croissant">> >>,
       <<"Frozen", <<"ice cream", "popsicle", "frozen", "ice-cream", "icecream">> >>,
       <<"Pantry", <<"rice", "pasta", "canned", "beans", "sauce", "oil", "vinegar", "flour", "sugar", "spice", "cereal">> >>,
       <<"Snacks", <<"chip", "chips", "cracker", "cookie", "chocolate", "popcorn", "granola">> >>,
       <<"Beverages", <<"juice", "soda", "cola", "water", "beer", "wine", "coffee", "tea">> >>,
       <<"Household", <<"detergent", "paper towel", "toilet paper", "trash bag", "cleaner", "bleach", "dish soap">> >>,
       <<"Personal Care", <<"shampoo", "soap", "toothpaste", "deodorant", "razor", "lotion", "conditioner">> >> >>

ALLOWED_CATEGORIES ==
    {"Produce", "Meat", "Seafood", "Dairy", "Bakery", "Frozen", "Pantry",
     "Snacks", "Beverages", "Household", "Personal Care", "Misc"}

\* the outcome tags of one external call
Statuses == {"OK", "RESOURCE_EXHAUSTED", "EXCEPTION", "NO_CLIENT"}

(***************************************************************************)
(* The item cache (table item_cache): a function from the stored key to    *)
(* its row.  An absent row is the empty sequence, a present one <<row>>.   *)
(***************************************************************************)

Row(category, normalized_name, source) ==
    [category |-> category, normalized_name |-> normalized_name, source |-> source]

normalize_item_key(item) == StrLower(StrStrip(item))

\* item strings given to classify_item_with_cache
Items == {"milk", " Milk ", "quirky item"}

\* item strings given to order_items
ExampleItems == <<"Bananas", "spinach", "sour dough", "greek yogurt", "ice cream", "milk">>

OrderItems == {"milk", "salmon", "chips", "quirky item"}

\* every item string the model handles ("" before a caller's first resolve),
\* with its stripped form and its key
\* item strings given to the keyword loop of ai_fallback_classify
HeuristicItems ==
    {"ice cream sandwich", "ice cream", "frozen peas", "cream cheese",
     "sourdough", "paper towel", "Green Tea", "quirky item",
     "extra sharp cheddar cheese block"}

\* every keyword of HEURISTIC_BUCKETS, given as an item
Keywords ==
    UNION {{HEURISTIC_BUCKETS[b][2][i] : i \in 1..Len(HEURISTIC_BUCKETS[b][2])} :
              b \in 1..Len(HEURISTIC_BUCKETS)}

RawItems ==
    Items \cup OrderItems \cup HeuristicItems \cup Keywords
        \cup {ExampleItems[i] : i \in 1..Len(ExampleItems)} \cup {""}

ItemStrings ==
    RawItems \cup {StrStrip(it) : it \in RawItems}
        \cup {normalize_item_key(it) : it \in RawItems}

\* normalize_item_key tabulated over the model's item strings
Key == [it \in ItemStrings |-> normalize_item_key(it)]

\* SELECT category, normalized_name, source FROM item_cache WHERE item = ?
get_cached_item(c, item) ==
    IF item \in DOMAIN c THEN <<c[item]>> ELSE <<>>

\* a table rebuilt from the new row alone
PutRow_Only(c, key, row) == [k \in {key} |-> row]

\* the table with the row of `key` inserted or replaced
PutRow(c, key, row) ==
    [k \in DOMAIN c \cup {key} |-> IF k = key THEN row ELSE c[k]]

\* cache_item without the WHERE clause of the upsert: every conflict replaces
cache_item_Unguarded(c, item, category, normalized_name, source) ==
    PutRow(c, Key[item], Row(category, normalized_name, source))

\* cache_item that never stores anything
cache_item_Dropped(c, item, category, normalized_name, source) == c

\* cache_item that stores under the item as given
cache_item_RawKey(c, item, category, normalized_name, source) ==
    IF item \in DOMAIN c /\ c[item].source = "manual"
    THEN c
    ELSE PutRow(c, item, Row(category, normalized_name, source))

\* cache_item as INSERT OR IGNORE: an existing row is never replaced
cache_item_FirstWins(c, item, category, normalized_name, source) ==
    IF Key[item] \in DOMAIN c THEN c
    ELSE PutRow(c, Key[item], Row(category, normalized_name, source))

\* INSERT ... ON CONFLICT(item) DO UPDATE ... WHERE item_cache.source != 'manual'
cache_item(c, item, category, normalized_name, source) ==
    LET key == Key[item]
    IN  IF key \in DOMAIN c /\ c[key].source = "manual"
        THEN c
        ELSE PutRow(c, key, Row(category, normalized_name, source))

\* INSERT OR REPLACE ... VALUES (?, ?, ?, 'manual')
override_item(c, item, category, normalized_name) ==
    PutRow(c, Key[item], Row(category, normalized_name, "manual"))

(***************************************************************************)
(* The external model's response and its parsing.                          *)
(* A response text is described by what the parser can see in it: whether  *)
(* it holds a ```json fence, whether the fenced text is well-formed JSON,  *)
(* and the JSON value.  A JSON value is an object with the two fields      *)
(* (each a string, or absent/non-string), an empty (falsy) value, or a     *)
(* non-empty value that is no object.                                      *)
(***************************************************************************)

JStr(v) == [t |-> "str", v |-> v]

\* dict.get of a missing key, or a JSON null
JNone == [t |-> "none", v |-> ""]

JObject(category, normalized_name) ==
    [kind |-> "object", category |-> category, normalized_name |-> normalized_name]

JEmpty == [kind |-> "empty", category |-> JNone, normalized_name |-> JNone]

JArray == [kind |-> "array", category |-> JNone, normalized_name |-> JNone]

ResponseText(fenced, wellformed, value) ==
    [fenced |-> fenced, wellformed |-> wellformed, value |-> value]

NoData == <<>>

\* re.search of the fence, then json.loads: the value, or None
_parse_dict_from_ai_response(response_text) ==
    IF ~response_text.fenced THEN NoData
    ELSE IF ~response_text.wellformed THEN NoData
    ELSE <<response_text.value>>

\* `if data_dict:`: None and empty JSON values are falsy
Truthy(data) == data # NoData /\ data[1].kind # "empty"

Raise == [kind |-> "raise", v |-> ""]

Value(v) == [kind |-> "value", v |-> v]

\* name.strip().title(); AttributeError when name is no string
_prettify_name(name) ==
    IF name.t = "str" THEN Value(StrTitle(StrStrip(name.v))) ELSE Raise

\* ' '.join(norm.split()[:3])
FirstThreeTokens(norm) == StrJoin(Take(StrSplit(norm), 3))

(***************************************************************************)
(* Heuristic keyword classifier                                            *)
(***************************************************************************)

RECURSIVE InsertByLen(_, _)
\* kw put behind every element at least as long as it
InsertByLen(sorted, kw) ==
    IF sorted = <<>> THEN <<kw>>
    ELSE IF Len(sorted[1]) >= Len(kw)
         THEN <<sorted[1]>> \o InsertByLen(Tail(sorted), kw)
         ELSE <<kw>> \o sorted

RECURSIVE SortedByLenDesc(_)
\* sorted(keywords, key=len, reverse=True): stable, longest first
SortedByLenDesc(keywords) ==
    IF keywords = <<>> THEN <<>>
    ELSE InsertByLen(SortedByLenDesc(SubSeq(keywords, 1, Len(keywords) - 1)),
                     keywords[Len(keywords)])

Classified(category, normalized_name) ==
    [kind |-> "return", category |-> category, normalized_name |-> normalized_name]

ChainRaise == [kind |-> "raise", category |-> "", normalized_name |-> ""]

RECURSIVE ScanBuckets(_, _)
\* the category of the first bucket with a keyword occurring in lowered, or Misc
ScanBuckets(buckets, lowered) ==
    IF buckets = <<>> THEN "Misc"
    ELSE LET kws == SortedByLenDesc(buckets[1][2])
         IN  IF \E i \in 1..Len(kws) : StrContains(lowered, kws[i])
             THEN buckets[1][1]
             ELSE ScanBuckets(Tail(buckets), lowered)

\* a classifier that takes the bucket of the longest keyword found anywhere
HeuristicClassify_LongestOverall(item) ==
    LET lowered == StrLower(StrStrip(item))
        found == {m \in {<<i, j>> : i \in 1..Len(HEURISTIC_BUCKETS), j \in 1..11} :
                     /\ m[2] <= Len(HEURISTIC_BUCKETS[m[1]][2])
                     /\ StrContains(lowered, HEURISTIC_BUCKETS[m[1]][2][m[2]])}
        best == CHOOSE m \in found : \A n \in found :
                    Len(HEURISTIC_BUCKETS[m[1]][2][m[2]])
                        >= Len(HEURISTIC_BUCKETS[n[1]][2][n[2]])
    IN  Classified(IF found = {} THEN "Misc" ELSE HEURISTIC_BUCKETS[best[1]][1],
                   FirstThreeTokens(StrTitle(StrStrip(item))))

\* a classifier that looks for the keywords in the item as given
HeuristicClassify_RawMatch(item) ==
    Classified(ScanBuckets(HEURISTIC_BUCKETS, StrStrip(item)),
               FirstThreeTokens(StrTitle(StrStrip(item))))

\* the keyword loop of ai_fallback_classify and its Misc default
HeuristicClassify(item) ==
    Classified(ScanBuckets(HEURISTIC_BUCKETS, StrLower(StrStrip(item))),
               FirstThreeTokens(StrTitle(StrStrip(item))))

(***************************************************************************)
(* Escalation chain: what ai_fallback_classify does with one response      *)
(***************************************************************************)

Stage(next, category, normalized_name) ==
    [next |-> next, category |-> category, normalized_name |-> normalized_name]

\* a retry after any failed primary call
NeedsAlternative_AnyFailure(status) == status # "OK"

\* `if status == 'RESOURCE_EXHAUSTED'` after the primary call
NeedsAlternative(status) == status = "RESOURCE_EXHAUSTED"

\* `if cat[:4] == 'Misc'`
NeedsUpgrade(cat) == Take(cat, 4) = "Misc"

\* an accepted answer whose name is kept whole
Validate_Untruncated(cat, norm) ==
    IF cat \in ALLOWED_CATEGORIES
    THEN Stage("return", cat, norm)
    ELSE Stage("heuristic", "", "")

\* the final check of the model's answer: accepted, or on to the heuristic
Validate(cat, norm) ==
    IF cat \in ALLOWED_CATEGORIES
    THEN Stage("return", cat, FirstThreeTokens(norm))
    ELSE Stage("heuristic", "", "")

\* `if status == 'OK'` ... up to the upgrade decision, for the response of the
\* primary or of the alternative model
AfterResponse(status, response_text) ==
    LET data == IF status = "OK"
                THEN _parse_dict_from_ai_response(response_text)
                ELSE NoData
    IN  IF ~Truthy(data) THEN Stage("heuristic", "", "")
        ELSE IF data[1].kind # "object" THEN Stage("raise", "", "")
        ELSE LET cat  == _prettify_name(data[1].category)
                 norm == _prettify_name(data[1].normalized_name)
             IN  IF cat.kind = "raise" \/ norm.kind = "raise"
                 THEN Stage("raise", "", "")
                 ELSE IF NeedsUpgrade(cat.v)
                      THEN Stage("upgrade", cat.v, norm.v)
                      ELSE Validate(cat.v, norm.v)

\* an upgrade answer handled like a first answer: Misc escalates again
AfterUpgrade_Reescalate(status, response_text, cat0, norm0) ==
    AfterResponse(status, response_text)

\* the response of the upgrade model: it replaces cat and norm when it parses
AfterUpgrade(status, response_text, cat0, norm0) ==
    LET data == IF status = "OK"
                THEN _parse_dict_from_ai_response(response_text)
                ELSE NoData
    IN  IF ~Truthy(data) THEN Validate(cat0, norm0)
        ELSE IF data[1].kind # "object" THEN Stage("raise", "", "")
        ELSE LET cat  == _prettify_name(data[1].category)
                 norm == _prettify_name(data[1].normalized_name)
             IN  IF cat.kind = "raise" \/ norm.kind = "raise"
                 THEN Stage("raise", "", "")
                 ELSE Validate(cat.v, norm.v)

\* what ai_fallback_classify returns (or raises) once no further call is due
ChainResult(stage, heuristic) ==
    IF stage.next = "raise" THEN ChainRaise
    ELSE IF stage.next = "heuristic" THEN heuristic
    ELSE Classified(stage.category, stage.normalized_name)

(***************************************************************************)
(* classify_item_with_cache around the chain                               *)
(***************************************************************************)

Returned(category, normalized_name, source) ==
    [kind |-> "return", category |-> category,
     normalized_name |-> normalized_name, source |-> source]

Raised == [kind |-> "raise", category |-> "", normalized_name |-> "", source |-> ""]

NoResult == [kind |-> "none", category |-> "", normalized_name |-> "", source |-> ""]

\* a hit that reports the row as freshly classified
HitResult_Relabelled(row) == Returned(row.category, row.normalized_name, "ai")

\* `if cached: return (cached["category"], cached["normalized_name"], cached["source"])`
HitResult(row) == Returned(row.category, row.normalized_name, row.source)

\* persisting every classification
ShouldPersist_Always(category) == TRUE

\* persisting no classification
ShouldPersist_Never(category) == FALSE

\* `if category != "Misc"`
ShouldPersist(category) == category # "Misc"

\* a chain error that is not caught
ExceptFallback_Propagate(item_key) == Raised

\* a fallback that hands the key back as it is
ExceptFallback_Untitled(item_key) == Returned("Misc", item_key, "fallback")

\* `except Exception: return "Misc", _prettify_name(item_key), "fallback"`
ExceptFallback(item_key) ==
    Returned("Misc", _prettify_name(JStr(item_key)).v, "fallback")

(***************************************************************************)
(* Store layout and the ordering of the groups                             *)
(***************************************************************************)

\* the rows (zone_name, category) the layout query returns for a store id,
\* in the order of zone_order
LayoutRows ==
    [store_id \in 1..4 |->
        CASE store_id = 1 ->
                << <<"Zone1", "Produce">>, <<"Zone2", "Bakery">>,
                   <<"Zone3", "Dairy">>, <<"Zone4", "Frozen">> >>
          [] store_id = 2 ->
                << <<"Zone1", "Produce">>, <<"Zone2", "Dairy">> >>
          [] store_id = 3 ->
                << <<"Zone1", "Produce">>, <<"Zone2", "Bakery">>,
                   <<"Zone2", "Dairy">>, <<"Zone3", "Produce">> >>
          [] OTHER -> << >>]

StoreIds == DOMAIN LayoutRows

\* no store: store_id is None
NoStore == 0

RECURSIVE GroupByZone(_, _)
\* zones[zone_name].append(category), zones in first-seen order
GroupByZone(rows, zones) ==
    IF rows = << >> THEN zones
    ELSE LET zone_name == rows[1][1]
             category == rows[1][2]
         IN  GroupByZone(Tail(rows),
                IF \E i \in 1..Len(zones) : zones[i][1] = zone_name
                THEN [i \in 1..Len(zones) |->
                        IF zones[i][1] = zone_name
                        THEN <<zone_name, Append(zones[i][2], category)>>
                        ELSE zones[i]]
                ELSE Append(zones, <<zone_name, <<category>> >>))

\* a lookup that falls back to the generic layout when it finds no rows
get_store_layout_GenericWhenEmpty(store_id) ==
    IF LayoutRows[store_id] = << >> THEN GENERIC_LAYOUT
    ELSE GroupByZone(LayoutRows[store_id], << >>)

\* get_store_layout(store_id): [] without rows, else list(zones.items())
get_store_layout(store_id) == GroupByZone(LayoutRows[store_id], << >>)

RECURSIVE FlattenCats_KeepsRepeats(_, _)
\* a flattening that appends every category it meets
FlattenCats_KeepsRepeats(cats, layout) ==
    IF cats = << >> THEN layout
    ELSE FlattenCats_KeepsRepeats(Tail(cats), Append(layout, cats[1]))

RECURSIVE FlattenCats(_, _)
\* `for c in cats: if c not in seen: ... layout.append(c)`
FlattenCats(cats, layout) ==
    IF cats = << >> THEN layout
    ELSE FlattenCats(Tail(cats),
            IF \E i \in 1..Len(layout) : layout[i] = cats[1]
            THEN layout
            ELSE Append(layout, cats[1]))

RECURSIVE FlattenLayout(_, _)
\* `for _zone, cats in db_layout`
FlattenLayout(db_layout, layout) ==
    IF db_layout = << >> THEN layout
    ELSE FlattenLayout(Tail(db_layout), FlattenCats(db_layout[1][2], layout))

\* no generic layout: an absent store is looked up like any other
LayoutFor_NoGeneric(store_id) ==
    FlattenLayout(IF store_id \in StoreIds THEN get_store_layout(store_id)
                  ELSE << >>,
                  << >>)

\* `if store_id: db_layout = get_store_layout(store_id) else: GENERIC_LAYOUT`
LayoutFor(store_id) ==
    FlattenLayout(IF store_id # NoStore THEN get_store_layout(store_id)
                  ELSE GENERIC_LAYOUT,
                  << >>)

\* table stores: store 4 is registered without any location; stores 1..3
\* have one location each, whose layout rows are LayoutRows; store 5 has two
StoreTable ==
    << [store_id |-> 1, name |-> "Alpha"], [store_id |-> 2, name |-> "Beta"],
       [store_id |-> 3, name |-> "Gamma"], [store_id |-> 4, name |-> "Delta"],
       [store_id |-> 5, name |-> "Twin"] >>

\* table store_locations
LocationTable ==
    << [location_id |-> 1, store_id |-> 1, postal_code |-> "10001"],
       [location_id |-> 2, store_id |-> 2, postal_code |-> "10002"],
       [location_id |-> 3, store_id |-> 3, postal_code |-> "10003"],
       [location_id |-> 4, store_id |-> 5, postal_code |-> "11111"],
       [location_id |-> 5, store_id |-> 5, postal_code |-> "22222"] >>

\* the store with two locations
TwinStore == StoreTable[5].store_id

\* store_zones joined with zone_categories for the locations of TwinStore
TwinZones ==
    << [location_id |-> 4, zone_order |-> 1, zone_name |-> "Front", category |-> "Produce"],
       [location_id |-> 4, zone_order |-> 2, zone_name |-> "Back", category |-> "Dairy"],
       [location_id |-> 5, zone_order |-> 1, zone_name |-> "Entrance", category |-> "Bakery"],
       [location_id |-> 5, zone_order |-> 2, zone_name |-> "Rear", category |-> "Frozen"] >>

\* the orders in which a SELECT ... ORDER BY sz.zone_order ASC may return the
\* rows: any order that is ascending in zone_order
OrderedByZoneOrder(rows) ==
    LET n == Len(rows)
        perms == {f \in [1..n -> 1..n] : \A i, j \in 1..n : i # j => f[i] # f[j]}
    IN  {[i \in 1..n |-> rows[f[i]]] :
            f \in {g \in perms :
                     \A i, j \in 1..n :
                        i < j => rows[g[i]].zone_order <= rows[g[j]].zone_order}}

\* the rows of get_store_layout's query: WHERE s.store_id = ? over the join of
\* stores, store_locations, store_zones and zone_categories
LayoutQuery(store_id) ==
    IF store_id \in StoreIds THEN {LayoutRows[store_id]}
    ELSE IF store_id = TwinStore
    THEN {[i \in 1..Len(rows) |-> <<rows[i].zone_name, rows[i].category>>] :
            rows \in OrderedByZoneOrder(TwinZones)}
    ELSE {<< >>}

\* a lookup that answers "no store" instead of raising
get_store_id_Silent(store_name, postal_code) ==
    [kind |-> "value", store_id |-> NoStore]

\* get_store_id(store_name, postal_code): the id, or ValueError
get_store_id(store_name, postal_code) ==
    LET ids == IF postal_code # ""
               THEN {StoreTable[i].store_id : i \in
                        {k \in 1..Len(StoreTable) :
                            /\ StoreTable[k].name = store_name
                            /\ \E l \in 1..Len(LocationTable) :
                                  /\ LocationTable[l].store_id = StoreTable[k].store_id
                                  /\ LocationTable[l].postal_code = postal_code}}
               ELSE {StoreTable[i].store_id : i \in
                        {k \in 1..Len(StoreTable) : StoreTable[k].name = store_name}}
    IN  IF ids = {} THEN [kind |-> "raise", store_id |-> NoStore]
        ELSE [kind |-> "value", store_id |-> CHOOSE id \in ids : TRUE]

\* get_store_details(store_name, postal_code): the first row of the join of
\* stores and store_locations, or ValueError
get_store_details(store_name, postal_code) ==
    LET locs == {l \in 1..Len(LocationTable) :
                    /\ \E k \in 1..Len(StoreTable) :
                          /\ StoreTable[k].name = store_name
                          /\ StoreTable[k].store_id = LocationTable[l].store_id
                    /\ postal_code # "" => LocationTable[l].postal_code = postal_code}
    IN  IF locs = {} THEN {[kind |-> "raise", store_id |-> NoStore, location_id |-> 0]}
        ELSE {[kind |-> "value", store_id |-> LocationTable[l].store_id,
               location_id |-> LocationTable[l].location_id] : l \in locs}

\* the flattened layout of the rows a layout query returned
LayoutOfRows(rows) == FlattenLayout(GroupByZone(rows, << >>), << >>)

InSeq(seq, e) == \E i \in 1..Len(seq) : seq[i] = e

\* a grouping that puts the newest name first
AppendGrouped_Prepends(grouped, cat, norm) ==
    IF \E i \in 1..Len(grouped) : grouped[i][1] = cat
    THEN [i \in 1..Len(grouped) |->
            IF grouped[i][1] = cat
            THEN <<cat, <<norm>> \o grouped[i][2]>>
            ELSE grouped[i]]
    ELSE Append(grouped, <<cat, <<norm>> >>)

\* a grouping that keeps one copy of a repeated name
AppendGrouped_Distinct(grouped, cat, norm) ==
    IF \E i \in 1..Len(grouped) : grouped[i][1] = cat
    THEN [i \in 1..Len(grouped) |->
            IF grouped[i][1] = cat /\ ~InSeq(grouped[i][2], norm)
            THEN <<cat, Append(grouped[i][2], norm)>>
            ELSE grouped[i]]
    ELSE Append(grouped, <<cat, <<norm>> >>)

\* grouped[cat].append(norm) on a defaultdict(list): keys in insertion order
AppendGrouped(grouped, cat, norm) ==
    IF \E i \in 1..Len(grouped) : grouped[i][1] = cat
    THEN [i \in 1..Len(grouped) |->
            IF grouped[i][1] = cat
            THEN <<cat, Append(grouped[i][2], norm)>>
            ELSE grouped[i]]
    ELSE Append(grouped, <<cat, <<norm>> >>)

GroupedKeys(grouped) == [i \in 1..Len(grouped) |-> grouped[i][1]]

GroupedItems(grouped, cat) ==
    grouped[CHOOSE i \in 1..Len(grouped) : grouped[i][1] = cat][2]

Group(zone, names) == [zone |-> zone, items |-> names]

RECURSIVE InsertSorted(_, _)
InsertSorted(sorted, e) ==
    IF sorted = << >> THEN <<e>>
    ELSE IF StrLess(e, sorted[1]) THEN <<e>> \o sorted
    ELSE <<sorted[1]>> \o InsertSorted(Tail(sorted), e)

RECURSIVE SortedStrings(_)
\* sorted(remaining)
SortedStrings(seq) ==
    IF seq = << >> THEN << >>
    ELSE InsertSorted(SortedStrings(Tail(seq)), seq[1])

RECURSIVE Filter(_, _, _)
\* [c for c in seq if (c in other) = keep]
Filter(seq, other, keep) ==
    IF seq = << >> THEN << >>
    ELSE (IF InSeq(other, seq[1]) = keep THEN <<seq[1]>> ELSE << >>)
            \o Filter(Tail(seq), other, keep)

\* the extra categories appended in the order the dict lists them
RemainingOrder_Unsorted(remaining) == remaining

\* `for cat in sorted(remaining)`
RemainingOrder(remaining) == SortedStrings(remaining)

\* an output that lists every category of the layout, with or without items
BuildOutput_AllLayout(layout, grouped) ==
    LET keys == GroupedKeys(grouped)
        remaining == RemainingOrder(Filter(keys, layout, FALSE))
        cats == layout \o remaining
    IN  [i \in 1..Len(cats) |->
            Group(cats[i],
                  IF InSeq(keys, cats[i]) THEN GroupedItems(grouped, cats[i])
                  ELSE << >>)]

\* the output list of order_items: the layout's categories that have a group,
\* in layout order, then the remaining ones
BuildOutput(layout, grouped) ==
    LET keys == GroupedKeys(grouped)
        inLayout == Filter(layout, keys, TRUE)
        remaining == RemainingOrder(Filter(keys, layout, FALSE))
        cats == inLayout \o remaining
    IN  [i \in 1..Len(cats) |-> Group(cats[i], GroupedItems(grouped, cats[i]))]

(***************************************************************************)
(* Bounds and inputs                                                       *)
(***************************************************************************)

\* operations (resolve, override, import) started in one behaviour
MaxOps == 2

\* order_items calls in one behaviour
MaxOrders == 1

\* the longest generated item list given to order_items
MaxListLen == 2

\* resolves in a run over the keywords
MaxKeywordOps == 1

\* the callers that may run at the same time
Procs == {"p1", "p2"}

\* response texts of the external model
GoodResponse ==
    ResponseText(TRUE, TRUE, JObject(JStr("dairy"), JStr(" organic  whole milk jug ")))

MiscResponse ==
    ResponseText(TRUE, TRUE, JObject(JStr("Misc"), JStr("odd thing from afar")))

UnfencedResponse ==
    ResponseText(FALSE, FALSE, JEmpty)

NoCategoryResponse ==
    ResponseText(TRUE, TRUE, JObject(JNone, JStr("thing")))

MalformedResponse ==
    ResponseText(TRUE, FALSE, JEmpty)

BadCategoryResponse ==
    ResponseText(TRUE, TRUE, JObject(JStr("electronics"), JStr("gadget")))

NoNameResponse ==
    ResponseText(TRUE, TRUE, JObject(JStr("Dairy"), JNone))

\* a category that is no allowed value and begins with "Misc"
MiscellaneousResponse ==
    ResponseText(TRUE, TRUE, JObject(JStr("miscellaneous"), JStr("sundry goods")))

\* an allowed category with the empty string as name
EmptyNameResponse ==
    ResponseText(TRUE, TRUE, JObject(JStr("Dairy"), JStr("")))

Responses ==
    {GoodResponse, MiscResponse, UnfencedResponse, NoCategoryResponse,
     MalformedResponse, BadCategoryResponse, NoNameResponse}

\* the response texts of the runs of the chain alone
ChainResponses == Responses \cup {MiscellaneousResponse, EmptyNameResponse}

\* item lists given to order_items: the lists of the documented examples, and
\* every list of up to MaxListLen items over OrderItems
UnmappedItems == <<"chips", "milk", "salmon">>

\* two items of one category, supplied against the alphabet
SameZoneItems == <<"milk", "cream cheese">>

ItemLists ==
    {ExampleItems, UnmappedItems, SameZoneItems} \cup UNION {[1..n -> OrderItems] : n \in 0..MaxListLen}

\* the keyword classifier and the except clause's result, tabulated over the
\* model's item strings
Heuristic == [it \in ItemStrings |-> HeuristicClassify(it)]

Fallback == [it \in ItemStrings |-> ExceptFallback(Key[it])]

\* what one _call_llm can come back with: '' unless the status is OK
CallOutcomes ==
    {<<"OK", r>> : r \in Responses}
        \cup {<<st, UnfencedResponse>> : st \in Statuses \ {"OK"}}

ChainOutcomes == CallOutcomes \cup {<<"OK", r>> : r \in ChainResponses}

\* the chain's reaction to each outcome of a call, tabulated: after the primary
\* or alternative model, and after the upgrade model given the pending answer
FirstStage == [o \in ChainOutcomes |-> AfterResponse(o[1], o[2])]

Pendings ==
    {Classified(FirstStage[o].category, FirstStage[o].normalized_name) :
        o \in {oo \in ChainOutcomes : FirstStage[oo].next = "upgrade"}}

UpgradeStage ==
    [o \in ChainOutcomes, pd \in Pendings |->
        AfterUpgrade(o[1], o[2], pd.category, pd.normalized_name)]

\* store names, postal codes and item lists given on the command line ("" for
\* an option that is absent)
MainStoreNames == {"", "Alpha", "Delta", "Twin", "Nowhere"}

MainPostalCodes == {"", "10001", "11111", "22222"}

MainItemLists == UNION {[1..n -> {"milk", "chips"}] : n \in 1..MaxListLen}

\* rows written by override_item and by the CSV import
OverrideRows == {Row("Pantry", "Oat Milk", "manual")}

\* an override whose category argument is no listed category
UnlistedOverrideRows == {Row("Deli", "Sliced Ham", "manual")}

ImportRows == {Row("Dairy", "Milk", "rules"), Row("Misc", "Thing", "manual")}

(***************************************************************************)
(* State                                                                   *)
(***************************************************************************)

VARIABLES
    cache,      \* table item_cache: key -> row
    apiKey,     \* environment variable GEMENI_FREE_API ("" when unset)
    pc,         \* per caller: where it is in classify_item_with_cache
    curItem,    \* per caller: the item being (or last) resolved
    cached,     \* per caller: what get_cached_item returned
    pend,       \* per caller: cat/norm held across the upgrade call or the write
    calls,      \* per caller: the models called by this resolve, in order
    heur,       \* per caller: whether this resolve ran the keyword loop
    writes,     \* per caller: cache_item calls made by this resolve
    result,     \* per caller: what the resolve returned
    first,      \* per caller: result of the preceding resolve of the same key
    clean,      \* per caller: no other operation wrote its key since it began
    ops,        \* operations started
    oPhase,     \* order_items: "idle", "loop", "wait" (in a resolve), "emitted";
                \* "error" when the store lookup before it raised
    oStore,     \* order_items: its store_id
    oItems,     \* order_items: its items
    oIdx,       \* order_items: the index of the next item of the loop
    oLayout,    \* order_items: layout, the flattened categories
    grouped,    \* order_items: grouped, as <<category, names>> in key order
    output,     \* order_items: the list returned
    oName,      \* __main__: the store name given ("" when none)
    oZip,       \* __main__: the postal code given ("" when none)
    orders      \* order_items calls started

resolverVars == <<cache, apiKey, pc, curItem, cached, pend, calls, heur, writes,
                  result, first, clean, ops>>

orderVars == <<oPhase, oStore, oItems, oIdx, oLayout, grouped, output, oName, oZip,
              orders>>

vars == <<resolverVars, orderVars>>

NoPend == Classified("", "")

NoFirst == [kind |-> "none", category |-> "", normalized_name |-> "",
            source |-> "", hit |-> FALSE]

KeyOf(p) == Key[curItem[p]]

Init ==
    /\ cache = << >>
    /\ apiKey \in {"", "fake-key"}
    /\ pc = [p \in Procs |-> "idle"]
    /\ curItem = [p \in Procs |-> ""]
    /\ cached = [p \in Procs |-> << >>]
    /\ pend = [p \in Procs |-> NoPend]
    /\ calls = [p \in Procs |-> << >>]
    /\ heur = [p \in Procs |-> FALSE]
    /\ writes = [p \in Procs |-> 0]
    /\ result = [p \in Procs |-> NoResult]
    /\ first = [p \in Procs |-> NoFirst]
    /\ clean = [p \in Procs |-> TRUE]
    /\ ops = 0
    /\ oPhase = "idle"
    /\ oStore = NoStore
    /\ oItems = << >>
    /\ oIdx = 1
    /\ oLayout = << >>
    /\ grouped = << >>
    /\ output = << >>
    /\ oName = ""
    /\ oZip = ""
    /\ orders = 0

\* the callers other than `writer` whose key is `key` saw a foreign write
Disturb(key, writer) ==
    [q \in Procs |->
        IF q # writer /\ pc[q] # "idle" /\ KeyOf(q) = key THEN FALSE ELSE clean[q]]

(***************************************************************************)
(* classify_item_with_cache, one step per cache access or external call    *)
(***************************************************************************)

\* the end of the chain inside classify_item_with_cache: the except clause,
\* the Misc test, and the return when nothing is to be written
EndChain(p, it, r, newCalls, ranHeur) ==
    /\ calls' = [calls EXCEPT ![p] = newCalls]
    /\ heur' = [heur EXCEPT ![p] = ranHeur]
    /\ IF r.kind = "raise"
       THEN /\ result' = [result EXCEPT ![p] = Fallback[it]]
            /\ pc' = [pc EXCEPT ![p] = "done"]
            /\ pend' = [pend EXCEPT ![p] = NoPend]
       ELSE IF ShouldPersist(r.category)
       THEN /\ result' = [result EXCEPT ![p] = NoResult]
            /\ pc' = [pc EXCEPT ![p] = "write"]
            /\ pend' = [pend EXCEPT ![p] = r]
       ELSE /\ result' = [result EXCEPT ![p] = Returned(r.category, r.normalized_name, "ai")]
            /\ pc' = [pc EXCEPT ![p] = "done"]
            /\ pend' = [pend EXCEPT ![p] = NoPend]

\* a stage of the chain that leads to another call or to its end
Advance(p, stage, newCalls) ==
    IF stage.next \in {"alternative", "upgrade"}
    THEN /\ pc' = [pc EXCEPT ![p] = stage.next]
         /\ pend' = [pend EXCEPT ![p] = Classified(stage.category, stage.normalized_name)]
         /\ calls' = [calls EXCEPT ![p] = newCalls]
         /\ UNCHANGED <<heur, result>>
    ELSE EndChain(p, curItem[p], ChainResult(stage, Heuristic[curItem[p]]), newCalls,
                  stage.next = "heuristic")

\* a resolve that calls the primary model on every miss, credential or not
Lookup_IgnoresKey(p, it) ==
    LET key == Key[it]
        row == get_cached_item(cache, key)
        again == pc[p] = "done" /\ KeyOf(p) = key /\ clean[p]
                    /\ result[p].kind = "return"
    IN  /\ pc[p] \in {"idle", "done"}
        /\ curItem' = [curItem EXCEPT ![p] = it]
        /\ cached' = [cached EXCEPT ![p] = row]
        /\ writes' = [writes EXCEPT ![p] = 0]
        /\ first' = [first EXCEPT ![p] =
                        IF again
                        THEN [kind |-> "return", category |-> result[p].category,
                              normalized_name |-> result[p].normalized_name,
                              source |-> result[p].source,
                              hit |-> cached[p] # << >>]
                        ELSE NoFirst]
        /\ clean' = [clean EXCEPT ![p] = TRUE]
        /\ IF row # << >>
           THEN /\ result' = [result EXCEPT ![p] = HitResult(row[1])]
                /\ pc' = [pc EXCEPT ![p] = "done"]
                /\ pend' = [pend EXCEPT ![p] = NoPend]
                /\ calls' = [calls EXCEPT ![p] = << >>]
                /\ heur' = [heur EXCEPT ![p] = FALSE]
           ELSE IF TRUE
           THEN /\ result' = [result EXCEPT ![p] = NoResult]
                /\ pc' = [pc EXCEPT ![p] = "primary"]
                /\ pend' = [pend EXCEPT ![p] = NoPend]
                /\ calls' = [calls EXCEPT ![p] = << >>]
                /\ heur' = [heur EXCEPT ![p] = FALSE]
           ELSE EndChain(p, it, Heuristic[it], << >>, TRUE)
        /\ UNCHANGED <<cache, apiKey>>

\* item_key = curItem.strip().lower(); cached = get_cached_item(item_key); the
\* return on a hit; on a miss the start of ai_fallback_classify
Lookup(p, it) ==
    LET key == Key[it]
        row == get_cached_item(cache, key)
        again == pc[p] = "done" /\ KeyOf(p) = key /\ clean[p]
                    /\ result[p].kind = "return"
    IN  /\ pc[p] \in {"idle", "done"}
        /\ curItem' = [curItem EXCEPT ![p] = it]
        /\ cached' = [cached EXCEPT ![p] = row]
        /\ writes' = [writes EXCEPT ![p] = 0]
        /\ first' = [first EXCEPT ![p] =
                        IF again
                        THEN [kind |-> "return", category |-> result[p].category,
                              normalized_name |-> result[p].normalized_name,
                              source |-> result[p].source,
                              hit |-> cached[p] # << >>]
                        ELSE NoFirst]
        /\ clean' = [clean EXCEPT ![p] = TRUE]
        /\ IF row # << >>
           THEN /\ result' = [result EXCEPT ![p] = HitResult(row[1])]
                /\ pc' = [pc EXCEPT ![p] = "done"]
                /\ pend' = [pend EXCEPT ![p] = NoPend]
                /\ calls' = [calls EXCEPT ![p] = << >>]
                /\ heur' = [heur EXCEPT ![p] = FALSE]
           ELSE IF apiKey # ""
           THEN /\ result' = [result EXCEPT ![p] = NoResult]
                /\ pc' = [pc EXCEPT ![p] = "primary"]
                /\ pend' = [pend EXCEPT ![p] = NoPend]
                /\ calls' = [calls EXCEPT ![p] = << >>]
                /\ heur' = [heur EXCEPT ![p] = FALSE]
           ELSE EndChain(p, it, Heuristic[it], << >>, TRUE)
        /\ UNCHANGED <<cache, apiKey>>

\* a caller resolves an item
Resolve(p) ==
    /\ ops < MaxOps
    /\ ops' = ops + 1
    /\ \E it \in Items : Lookup(p, it)
    /\ UNCHANGED orderVars

\* _call_llm(model=primary_model, ...) and what follows its answer
PrimaryReturns(p, o) ==
    /\ pc[p] = "primary"
    /\ Advance(p,
               IF NeedsAlternative(o[1])
               THEN Stage("alternative", "", "")
               ELSE FirstStage[o],
               Append(calls[p], "primary"))
    /\ UNCHANGED <<cache, apiKey, curItem, cached, writes, first, clean, ops>>
    /\ UNCHANGED orderVars

CallPrimary(p) == \E o \in CallOutcomes : PrimaryReturns(p, o)

\* _call_llm(model=alternative_model, ...) and what follows its answer
\* an alternative call that is retried while the resource is exhausted
AlternativeReturns_Retries(p, o) ==
    /\ pc[p] = "alternative"
    /\ Advance(p,
               IF NeedsAlternative(o[1])
               THEN Stage("alternative", "", "")
               ELSE FirstStage[o],
               Append(calls[p], "alternative"))
    /\ UNCHANGED <<cache, apiKey, curItem, cached, writes, first, clean, ops>>
    /\ UNCHANGED orderVars

AlternativeReturns(p, o) ==
    /\ pc[p] = "alternative"
    /\ Advance(p, FirstStage[o], Append(calls[p], "alternative"))
    /\ UNCHANGED <<cache, apiKey, curItem, cached, writes, first, clean, ops>>
    /\ UNCHANGED orderVars

CallAlternative(p) == \E o \in CallOutcomes : AlternativeReturns(p, o)

\* _call_llm(model=upgrade_model, ...) and what follows its answer
UpgradeReturns(p, o) ==
    /\ pc[p] = "upgrade"
    /\ Advance(p, UpgradeStage[o, pend[p]], Append(calls[p], "upgrade"))
    /\ UNCHANGED <<cache, apiKey, curItem, cached, writes, first, clean, ops>>
    /\ UNCHANGED orderVars

CallUpgrade(p) == \E o \in CallOutcomes : UpgradeReturns(p, o)

\* a write after which the call never returns
CacheWrite_NoReturn(p) ==
    /\ pc[p] = "write"
    /\ cache' = cache_item(cache, KeyOf(p), pend[p].category,
                           pend[p].normalized_name, "ai")
    /\ clean' = Disturb(KeyOf(p), p)
    /\ UNCHANGED <<apiKey, pc, curItem, cached, pend, calls, heur, writes, result,
                   first, ops>>
    /\ UNCHANGED orderVars

\* cache_item(item_key, category, norm, source="ai"); return category, norm, "ai"
CacheWrite(p) ==
    /\ pc[p] = "write"
    /\ cache' = cache_item(cache, KeyOf(p), pend[p].category,
                           pend[p].normalized_name, "ai")
    /\ writes' = [writes EXCEPT ![p] = @ + 1]
    /\ result' = [result EXCEPT ![p] =
                     Returned(pend[p].category, pend[p].normalized_name, "ai")]
    /\ pc' = [pc EXCEPT ![p] = "done"]
    /\ pend' = [pend EXCEPT ![p] = NoPend]
    /\ clean' = Disturb(KeyOf(p), p)
    /\ UNCHANGED <<apiKey, curItem, cached, calls, heur, first, ops>>
    /\ UNCHANGED orderVars

(***************************************************************************)
(* The other writers of the cache                                          *)
(***************************************************************************)

\* override_item.py: override_item(item, category, normalized_name)
OverrideWith(rows) ==
    /\ ops < MaxOps
    /\ ops' = ops + 1
    /\ \E it \in Items, row \in rows :
          /\ cache' = override_item(cache, it, row.category, row.normalized_name)
          /\ clean' = Disturb(Key[it], "")
    /\ UNCHANGED <<apiKey, pc, curItem, cached, pend, calls, heur, writes, result, first>>
    /\ UNCHANGED orderVars

Override == OverrideWith(OverrideRows \cup UnlistedOverrideRows)

\* backfill_data.py import_csv: cache_item per CSV row with its own source
Import ==
    /\ ops < MaxOps
    /\ ops' = ops + 1
    /\ \E it \in Items, row \in ImportRows :
          /\ StrStrip(it) # ""
          /\ cache' = cache_item(cache, StrStrip(it), row.category,
                                 row.normalized_name, row.source)
          /\ clean' = Disturb(Key[it], "")
    /\ UNCHANGED <<apiKey, pc, curItem, cached, pend, calls, heur, writes, result, first>>
    /\ UNCHANGED orderVars

(***************************************************************************)
(* order_items, run by one caller: one step per loop iteration             *)
(***************************************************************************)

Orderer == "p1"

\* the call, the choice of the layout and its flattening
OrderBegin ==
    /\ oPhase \in {"idle", "emitted"}
    /\ pc[Orderer] \in {"idle", "done"}
    /\ orders < MaxOrders
    /\ orders' = orders + 1
    /\ \E store_id \in StoreIds \cup {NoStore}, items \in ItemLists :
          /\ oStore' = store_id
          /\ oItems' = items
          /\ oLayout' = LayoutFor(store_id)
    /\ oIdx' = 1
    /\ grouped' = << >>
    /\ output' = << >>
    /\ oPhase' = "loop"
    /\ oName' = ""
    /\ oZip' = ""
    /\ UNCHANGED resolverVars

\* `for item in items: ... classify_item_with_cache(item)`: the call
OrderClassify ==
    /\ oPhase = "loop"
    /\ oIdx <= Len(oItems)
    /\ Lookup(Orderer, oItems[oIdx])
    /\ oPhase' = "wait"
    /\ UNCHANGED <<ops, oStore, oItems, oIdx, oLayout, grouped, output, oName, oZip,
                   orders>>

\* `cat, norm, _source = ...; grouped[cat].append(norm)`
OrderCollect ==
    /\ oPhase = "wait"
    /\ pc[Orderer] = "done"
    /\ grouped' = AppendGrouped(grouped, result[Orderer].category,
                               result[Orderer].normalized_name)
    /\ oIdx' = oIdx + 1
    /\ oPhase' = "loop"
    /\ UNCHANGED <<resolverVars, oStore, oItems, oLayout, output, oName, oZip, orders>>

\* the two output loops and the return
OrderEmit ==
    /\ oPhase = "loop"
    /\ oIdx > Len(oItems)
    /\ output' = BuildOutput(oLayout, grouped)
    /\ oPhase' = "emitted"
    /\ UNCHANGED <<resolverVars, oStore, oItems, oIdx, oLayout, grouped, oName, oZip,
                   orders>>

Next ==
    \/ \E p \in Procs : Resolve(p)
    \/ \E p \in Procs : CallPrimary(p)
    \/ \E p \in Procs : CallAlternative(p)
    \/ \E p \in Procs : CallUpgrade(p)
    \/ \E p \in Procs : CacheWrite(p)
    \/ Override
    \/ Import

Spec == Init /\ [][Next]_vars

\* the steps of a resolve under way: every external call returns (an error
\* included, _call_llm catches it) and the code after it runs on
Step(p) == CallPrimary(p) \/ CallAlternative(p) \/ CallUpgrade(p) \/ CacheWrite(p)

FairSpec == Spec /\ \A p \in Procs : WF_vars(Step(p))

\* order_items by one caller where no credential is configured (every miss is
\* classified by the keyword loop), the cache prepared by overrides
OrderInit == Init /\ apiKey = ""

OrderPrepare == oPhase = "idle" /\ OverrideWith(OverrideRows)

OrderNext ==
    \/ OrderPrepare
    \/ OrderBegin
    \/ OrderClassify
    \/ CacheWrite(Orderer)
    \/ OrderCollect
    \/ OrderEmit

OrderSpec == OrderInit /\ [][OrderNext]_vars

\* classify_item_with_cache when get_cached_item raises (sqlite3 error): the
\* call is outside the try, the error leaves classify_item_with_cache
ResolveReadFails(p) ==
    /\ ops < MaxOps
    /\ ops' = ops + 1
    /\ pc[p] \in {"idle", "done"}
    /\ \E it \in Items : curItem' = [curItem EXCEPT ![p] = it]
    /\ cached' = [cached EXCEPT ![p] = << >>]
    /\ result' = [result EXCEPT ![p] = Raised]
    /\ pc' = [pc EXCEPT ![p] = "done"]
    /\ pend' = [pend EXCEPT ![p] = NoPend]
    /\ calls' = [calls EXCEPT ![p] = << >>]
    /\ heur' = [heur EXCEPT ![p] = FALSE]
    /\ writes' = [writes EXCEPT ![p] = 0]
    /\ first' = [first EXCEPT ![p] = NoFirst]
    /\ clean' = [clean EXCEPT ![p] = TRUE]
    /\ UNCHANGED <<cache, apiKey>>
    /\ UNCHANGED orderVars

\* cache_item raises (sqlite3 error) and stores nothing: the call is inside
\* the try, `except Exception` returns the fallback triple
CacheWriteFails(p) ==
    /\ pc[p] = "write"
    /\ writes' = [writes EXCEPT ![p] = @ + 1]
    /\ result' = [result EXCEPT ![p] = Fallback[curItem[p]]]
    /\ pc' = [pc EXCEPT ![p] = "done"]
    /\ pend' = [pend EXCEPT ![p] = NoPend]
    /\ UNCHANGED <<cache, apiKey, curItem, cached, calls, heur, first, clean, ops>>
    /\ UNCHANGED orderVars

\* resolves by one caller on a storage whose reads and writes may fail
StorageNext ==
    \/ Resolve(Orderer)
    \/ CallPrimary(Orderer)
    \/ CallAlternative(Orderer)
    \/ CallUpgrade(Orderer)
    \/ CacheWrite(Orderer)
    \/ ResolveReadFails(Orderer)
    \/ CacheWriteFails(Orderer)

StorageSpec == Init /\ [][StorageNext]_vars

\* resolves by one caller, the external model answering with any of the
\* response texts
ChainPrimary == \E o \in ChainOutcomes : PrimaryReturns(Orderer, o)

ChainAlternative == \E o \in ChainOutcomes : AlternativeReturns(Orderer, o)

ChainUpgrade == \E o \in ChainOutcomes : UpgradeReturns(Orderer, o)

ChainNext ==
    \/ Resolve(Orderer)
    \/ ChainPrimary
    \/ ChainAlternative
    \/ ChainUpgrade
    \/ CacheWrite(Orderer)

ChainSpec == Init /\ [][ChainNext]_vars

\* resolves by one caller of a short and of a long item, and overrides whose
\* name has five words
NameItems == {"milk", "extra sharp cheddar cheese block"}

NameOverrideRows == {Row("Dairy", "Large Brown Free Range Eggs", "manual")}

NameResolve ==
    /\ ops < MaxOps
    /\ ops' = ops + 1
    /\ \E it \in NameItems : Lookup(Orderer, it)
    /\ UNCHANGED orderVars

NameNext ==
    \/ NameResolve
    \/ CallPrimary(Orderer)
    \/ CallAlternative(Orderer)
    \/ CallUpgrade(Orderer)
    \/ CacheWrite(Orderer)
    \/ OverrideWith(NameOverrideRows)

NameSpec == Init /\ [][NameNext]_vars

\* what resolving a store name can come back with: get_store_id (the command
\* line) or get_store_details (GET /stores, whose store_id the client posts)
StoreLookups(store_name, postal_code) ==
    {[kind |-> d.kind, store_id |-> d.store_id] :
        d \in {get_store_id(store_name, postal_code)}
                \cup get_store_details(store_name, postal_code)}

\* the store resolved by name, then order_items up to its classification
\* loop; a ValueError of the lookup ends the run
MainBegin ==
    /\ oPhase \in {"idle", "emitted", "error"}
    /\ pc[Orderer] \in {"idle", "done"}
    /\ orders < MaxOrders
    /\ orders' = orders + 1
    /\ \E store_name \in MainStoreNames, postal_code \in MainPostalCodes,
          items \in MainItemLists :
          /\ oName' = store_name
          /\ oZip' = postal_code
          /\ oItems' = items
          /\ IF store_name = ""
             THEN /\ oStore' = NoStore
                  /\ oLayout' = LayoutFor(NoStore)
                  /\ oPhase' = "loop"
             ELSE \E found \in StoreLookups(store_name, postal_code) :
                     IF found.kind = "raise"
                     THEN /\ oStore' = NoStore
                          /\ oLayout' = << >>
                          /\ oPhase' = "error"
                     ELSE /\ oStore' = found.store_id
                          /\ \E rows \in LayoutQuery(found.store_id) :
                                oLayout' = LayoutOfRows(rows)
                          /\ oPhase' = "loop"
    /\ oIdx' = 1
    /\ grouped' = << >>
    /\ output' = << >>
    /\ UNCHANGED resolverVars

MainNext ==
    \/ MainBegin
    \/ OrderClassify
    \/ CacheWrite(Orderer)
    \/ OrderCollect
    \/ OrderEmit

MainSpec == OrderInit /\ [][MainNext]_vars

\* resolves and manual overrides only, from the empty cache: no import
ResolveOverrideNext ==
    \/ \E p \in Procs : Resolve(p)
    \/ \E p \in Procs : CallPrimary(p)
    \/ \E p \in Procs : CallAlternative(p)
    \/ \E p \in Procs : CallUpgrade(p)
    \/ \E p \in Procs : CacheWrite(p)
    \/ Override

ResolveOverrideSpec == Init /\ [][ResolveOverrideNext]_vars

\* resolves by one caller where no credential is configured and nothing else
\* writes the cache: every miss is classified by the keyword loop
HeurInit == Init /\ apiKey = ""

HeurResolve ==
    /\ ops < MaxOps
    /\ ops' = ops + 1
    /\ \E it \in HeuristicItems : Lookup(Orderer, it)
    /\ UNCHANGED orderVars

HeurNext ==
    \/ HeurResolve
    \/ CacheWrite(Orderer)

HeurSpec == HeurInit /\ [][HeurNext]_vars

\* one caller resolving keywords of HEURISTIC_BUCKETS where no credential
\* is configured
KeywordResolve ==
    /\ ops < MaxKeywordOps
    /\ ops' = ops + 1
    /\ \E it \in Keywords : Lookup(Orderer, it)
    /\ UNCHANGED orderVars

KeywordNext ==
    \/ KeywordResolve
    \/ CacheWrite(Orderer)

KeywordSpec == HeurInit /\ [][KeywordNext]_vars


(***************************************************************************)
(* Properties                                                              *)
(***************************************************************************)

Triple(r) == <<r.category, r.normalized_name, r.source>>

\* C1: a row whose source is manual is changed by no step of a resolve and by
\* no cache_item of the import, whatever source it carries and whenever the
\* resolve read the cache; only override_item replaces it.
C1_ManualImmutable ==
    [][Override
        \/ \A k \in DOMAIN cache :
              cache[k].source = "manual"
                  => k \in DOMAIN cache' /\ cache'[k] = cache[k]]_vars

\* a resolve that missed the cache, then wrote after a manual override of its key
C1_Witness ==
    \E p \in Procs :
        /\ pc[p] = "done" /\ cached[p] = << >> /\ writes[p] = 1
        /\ KeyOf(p) \in DOMAIN cache
        /\ cache[KeyOf(p)].source = "manual"
        /\ result[p].source = "ai"

\* C2: whatever the external calls come back with, classify_item_with_cache
\* returns a (category, normalized_name, source) triple; no error of the
\* chain reaches its caller.
C2_AlwaysReturns ==
    \A p \in Procs :
        /\ result[p].kind # "raise"
        /\ pc[p] = "done" => result[p].kind = "return"

\* a resolve whose chain raised on a malformed response and still returned
C2_Witness ==
    \E p \in Procs :
        /\ pc[p] = "done" /\ calls[p] # << >>
        /\ result[p].kind = "return" /\ result[p].source = "fallback"

\* C3: one run of the chain calls the primary model at most once, then the
\* alternative model at most once, then the upgrade model at most once.
C3_CallOrder ==
    \A p \in Procs :
        calls[p] \in {<< >>, <<"primary">>, <<"primary", "alternative">>,
                      <<"primary", "upgrade">>,
                      <<"primary", "alternative", "upgrade">>}

\* a chain that went through all three models
C3_Witness ==
    \E p \in Procs :
        pc[p] = "done" /\ calls[p] = <<"primary", "alternative", "upgrade">>

\* C4: a resolve that returns Misc has made no cache write, and a second
\* resolve of the same key after a missed Misc one misses again and runs the
\* chain again.
C4_MiscNotPersisted ==
    \A p \in Procs :
        /\ (pc[p] = "done" /\ result[p].category = "Misc") => writes[p] = 0
        /\ (first[p].kind = "return" /\ ~first[p].hit /\ first[p].category = "Misc")
              => /\ cached[p] = << >>
                 /\ pc[p] = "done" => (heur[p] \/ calls[p] # << >>)

\* a second resolve finished after a first one that missed and returned Misc
C4_Witness ==
    \E p \in Procs :
        /\ pc[p] = "done" /\ first[p].kind = "return"
        /\ ~first[p].hit /\ first[p].category = "Misc"
        /\ result[p].category = "Misc"

FirstTriple(p) == <<first[p].category, first[p].normalized_name, first[p].source>>

ServedFromCache(p) ==
    cached[p] # << >> /\ calls[p] = << >> /\ ~heur[p]

\* C5 as stated: the second of two resolves of the same key, nothing else
\* having written that key in between, returns the first one's result from
\* the cache.
C5_Original ==
    \A p \in Procs :
        (pc[p] = "done" /\ first[p].kind = "return")
            => Triple(result[p]) = FirstTriple(p) /\ ServedFromCache(p)

\* C5 amended: the same, when the first resolve was a cache hit or returned a
\* category other than Misc.
C5_Idempotent ==
    \A p \in Procs :
        (/\ pc[p] = "done"
         /\ first[p].kind = "return"
         /\ (first[p].hit \/ first[p].category # "Misc"))
            => Triple(result[p]) = FirstTriple(p) /\ ServedFromCache(p)

\* a second resolve after a first one that missed and cached its result
C5_Witness ==
    \E p \in Procs :
        /\ pc[p] = "done" /\ first[p].kind = "return"
        /\ ~first[p].hit /\ first[p].category # "Misc"
        /\ Triple(result[p]) = FirstTriple(p)

\* C6: a resolve that finds a row for its key returns exactly that row's
\* category, normalized name and source, calls no model, does not run the
\* keyword loop and writes nothing.
C6_HitVerbatim ==
    \A p \in Procs :
        (pc[p] = "done" /\ cached[p] # << >>)
            => /\ Triple(result[p]) = Triple(cached[p][1])
               /\ result[p].kind = "return"
               /\ calls[p] = << >> /\ ~heur[p] /\ writes[p] = 0

\* a hit on a row that is not an "ai" row
C6_Witness ==
    \E p \in Procs :
        pc[p] = "done" /\ cached[p] # << >> /\ result[p].source = "manual"

\* the step in which caller p calls cache_item and returns
IsCacheWrite(p) == pc[p] = "write" /\ pc'[p] = "done"

\* C7: a resolve that missed and whose chain gave a category other than Misc
\* makes exactly one cache write; when the key has no manual row that write
\* stores (key, category, normalized_name, "ai") and changes no other key; the
\* resolve returns (category, normalized_name, "ai").
C7_WriteThrough ==
    /\ [](\A p \in Procs :
            (pc[p] = "done" /\ cached[p] = << >> /\ result[p].category # "Misc")
                => writes[p] = 1 /\ result[p].source = "ai")
    /\ [][\A p \in Procs :
            IsCacheWrite(p)
                => /\ writes'[p] = writes[p] + 1
                   /\ Triple(result'[p])
                        = <<pend[p].category, pend[p].normalized_name, "ai">>
                   /\ ~(KeyOf(p) \in DOMAIN cache /\ cache[KeyOf(p)].source = "manual")
                        => /\ DOMAIN cache' = DOMAIN cache \cup {KeyOf(p)}
                           /\ cache'[KeyOf(p)]
                                = Row(pend[p].category, pend[p].normalized_name, "ai")
                           /\ \A k \in DOMAIN cache \ {KeyOf(p)} :
                                cache'[k] = cache[k]]_vars

\* a missed resolve that wrote its row next to another key's row
C7_Witness ==
    \E p \in Procs :
        /\ pc[p] = "done" /\ cached[p] = << >> /\ writes[p] = 1
        /\ KeyOf(p) \in DOMAIN cache
        /\ Triple(cache[KeyOf(p)]) = Triple(result[p])
        /\ DOMAIN cache # {KeyOf(p)}


Busy(p) == pc[p] \in {"primary", "alternative", "upgrade", "write"}

\* C8: every resolve under way reaches its return, whatever the outcomes of
\* its external calls, and it makes at most three external calls.
C8_Terminates ==
    /\ [](\A p \in Procs : Len(calls[p]) <= 3)
    /\ \A p \in Procs : Busy(p) ~> (pc[p] = "done")

\* a resolve that returned after three external calls and a cache write
C8_Witness ==
    \E p \in Procs :
        pc[p] = "done" /\ Len(calls[p]) = 3 /\ writes[p] = 1

\* the category labels of the list returned, in order
Zones == [i \in 1..Len(output) |-> output[i].zone]

\* the place of a category in a list without repetition
Pos(seq, e) == CHOOSE i \in 1..Len(seq) : seq[i] = e

\* C9: the list order_items returns holds one group per category of the
\* classified items, with that category's names; first come the groups whose
\* category is in the flattened layout, in the layout's order, then the groups
\* whose category is not in it (Misc included), ascending by label.
C9_EmitOrder ==
    oPhase = "emitted" =>
        /\ {Zones[i] : i \in 1..Len(Zones)}
              = {grouped[i][1] : i \in 1..Len(grouped)}
        /\ \A i \in 1..Len(output) :
              output[i].items = GroupedItems(grouped, output[i].zone)
        /\ \E k \in 0..Len(Zones) :
              /\ \A i \in 1..k : InSeq(oLayout, Zones[i])
              /\ \A i \in (k + 1)..Len(Zones) : ~InSeq(oLayout, Zones[i])
              /\ \A i, j \in 1..k :
                    i < j => Pos(oLayout, Zones[i]) < Pos(oLayout, Zones[j])
              /\ \A i, j \in (k + 1)..Len(Zones) :
                    i < j => StrLess(Zones[i], Zones[j])

\* chips, milk and salmon against the layout Produce, Dairy: Dairy, then
\* Seafood before Snacks although Snacks was classified first
C9_Witness ==
    /\ oPhase = "emitted"
    /\ oLayout = <<"Produce", "Dairy">>
    /\ GroupedKeys(grouped) = <<"Snacks", "Dairy", "Seafood">>
    /\ Zones = <<"Dairy", "Seafood", "Snacks">>

\* C10: on an empty cache, order_items on the six items of the documented
\* example against the layout Produce, Bakery, Dairy, Frozen returns
\* Produce:[Bananas, Spinach], Bakery:[Sour Dough], Dairy:[Greek Yogurt, Milk],
\* Frozen:[Ice Cream].
C10_Example ==
    (/\ oPhase = "emitted"
     /\ orders = 1
     /\ ops = 0
     /\ oLayout = <<"Produce", "Bakery", "Dairy", "Frozen">>
     /\ oItems = ExampleItems)
        => output = << Group("Produce", <<"Bananas", "Spinach">>),
                       Group("Bakery", <<"Sour Dough">>),
                       Group("Dairy", <<"Greek Yogurt", "Milk">>),
                       Group("Frozen", <<"Ice Cream">>) >>

RECURSIVE EmittedCount(_)
\* the number of item names in a list of groups
EmittedCount(groups) ==
    IF groups = << >> THEN 0
    ELSE Len(groups[1].items) + EmittedCount(Tail(groups))

\* C11: without a store id order_items flattens the built-in generic layout
\* and still classifies every item; with no credential and no manual
\* override, order_items(None, ["milk"]) returns the single group
\* Dairy: ["Milk"].
C11_NoStoreGeneric ==
    (oPhase = "emitted" /\ oStore = NoStore) =>
        /\ oLayout = <<"Produce", "Meat", "Seafood", "Deli", "Bakery", "Dairy",
                       "Frozen", "Pantry", "Snacks", "Beverages", "Household",
                       "Personal Care">>
        /\ EmittedCount(output) = Len(oItems)
        /\ (oItems = <<"milk">> /\ ops = 0) =>
              output = << Group("Dairy", <<"Milk">>) >>

\* order_items(None, ["milk"]) has returned, on a cache no override touched
C11_Witness ==
    /\ oPhase = "emitted"
    /\ oStore = NoStore
    /\ oItems = <<"milk">>
    /\ ops = 0
    /\ output = << Group("Dairy", <<"Milk">>) >>

\* C12: the keyword loop classifies "ice cream sandwich" as Frozen, through
\* the keyword "ice cream", and not as the category of a shorter keyword
\* that also occurs in it.
C12_LongestMatch ==
    \A p \in Procs :
        (pc[p] = "done" /\ curItem[p] = "ice cream sandwich" /\ heur[p]) =>
            result[p].category = "Frozen"

\* a response whose parsing or validation fails: no fenced block, malformed
\* JSON, a missing category or normalized_name, or a category outside the
\* allowed ones
ParseOrValidationFails(response_text) ==
    \/ ~response_text.fenced
    \/ ~response_text.wellformed
    \/ response_text.value.kind # "object"
    \/ response_text.value.category.t # "str"
    \/ response_text.value.normalized_name.t # "str"
    \/ StrTitle(StrStrip(response_text.value.category.v)) \notin ALLOWED_CATEGORIES

FailedResponses == {r \in Responses : ParseOrValidationFails(r)}

\* the category and name the resolve of p is about to return
Classification(p) ==
    IF pc[p] = "write" THEN <<pend[p].category, pend[p].normalized_name>>
    ELSE <<result[p].category, result[p].normalized_name>>

\* C13: when the primary or alternative call returns OK and the parsing or
\* validation of its response fails, the item's classification is exactly
\* the keyword loop's result for that item, and the resolve returns.
C13_FallsToHeuristic ==
    [][\A p \in Procs : \A r \in FailedResponses :
          (/\ pc[p] \in {"primary", "alternative"}
           /\ Advance(p, FirstStage[<<"OK", r>>], Append(calls[p], pc[p])))
          => /\ pc'[p] \in {"done", "write"}
             /\ Classification(p)' = <<Heuristic[curItem[p]].category,
                                       Heuristic[curItem[p]].normalized_name>>]_vars

\* C14: with the credential set and the item not cached, a primary call
\* that returns OK with a fenced JSON object holding an allowed non-Misc
\* category and a name classifies the item with the model's category and
\* its title-cased name cut to three tokens; the keyword loop is not run and
\* neither the alternative nor the upgrade model is called.
C14_PrimaryAccepted ==
    /\ [][\A p \in Procs :
            (/\ pc[p] = "primary"
             /\ Advance(p, FirstStage[<<"OK", GoodResponse>>],
                        Append(calls[p], "primary")))
            => /\ pc'[p] = "write"
               /\ pend'[p].category = "Dairy"
               /\ pend'[p].normalized_name = "Organic Whole Milk"
               /\ calls'[p] = <<"primary">>
               /\ ~heur'[p]]_vars
    /\ [](\A p \in Procs :
            (pc[p] = "done" /\ writes[p] = 1 /\ calls[p] = <<"primary">> /\ ~heur[p])
            => result[p] = Returned("Dairy", "Organic Whole Milk", "ai"))

\* a resolve that returned the primary model's accepted answer
C14_Witness ==
    \E p \in Procs :
        /\ pc[p] = "done"
        /\ cached[p] = << >>
        /\ calls[p] = <<"primary">>
        /\ ~heur[p]
        /\ result[p] = Returned("Dairy", "Organic Whole Milk", "ai")

\* C15: a storage failure during a resolve, on the cache read or on the
\* cache write, propagates to the caller and is never turned into a
\* classification result.
C15_StorageFailurePropagates ==
    [][\A p \in Procs :
          (ResolveReadFails(p) \/ CacheWriteFails(p)) => result'[p] = Raised]_vars

\* the location of TwinStore a lookup is about: the one with the postal code
\* given, or the one with the lowest location id
ClaimedLocation(postal_code) ==
    LET locs == {LocationTable[l].location_id : l \in
                    {k \in 1..Len(LocationTable) :
                        /\ LocationTable[k].store_id = TwinStore
                        /\ postal_code # "" =>
                              LocationTable[k].postal_code = postal_code}}
    IN  CHOOSE loc \in locs : \A other \in locs : loc <= other

\* the categories of one location's zones, in zone order
LocationCategories(location_id) ==
    LET IsOfLocation(r) == r.location_id = location_id
        rows == SelectSeq(TwinZones, IsOfLocation)
    IN  [i \in 1..Len(rows) |-> rows[i].category]

\* C16: the layout used for a store with several locations is the layout of
\* exactly one location, the one with the postal code supplied or, without
\* a postal code, the one with the lowest location id; it holds no category
\* of another location.
C16_OneLocation ==
    (oPhase \in {"loop", "wait", "emitted"} /\ oStore = TwinStore) =>
        oLayout = LocationCategories(ClaimedLocation(oZip))

EmptyLayoutStores == {id \in StoreIds : LayoutRows[id] = << >>}

\* C18: get_store_layout of a store id without stored layout returns the
\* empty list, and order_items with that store id still classifies and
\* emits every item, its groups in ascending order of category label.
C18_EmptyLayout ==
    /\ \A id \in EmptyLayoutStores : get_store_layout(id) = << >>
    /\ (oPhase = "emitted" /\ oStore \in EmptyLayoutStores) =>
          /\ oLayout = << >>
          /\ EmittedCount(output) = Len(oItems)
          /\ {output[i].zone : i \in 1..Len(output)}
                = {grouped[i][1] : i \in 1..Len(grouped)}
          /\ \A i, j \in 1..Len(output) :
                i < j => StrLess(output[i].zone, output[j].zone)

\* chips, milk and salmon ordered for a store without layout
C18_Witness ==
    /\ oPhase = "emitted"
    /\ oStore \in EmptyLayoutStores
    /\ oItems = UnmappedItems
    /\ output = << Group("Dairy", <<"Milk">>), Group("Seafood", <<"Salmon">>),
                   Group("Snacks", <<"Chips">>) >>

\* C19: after any sequence of resolves and manual overrides, every category
\* classify_item_with_cache returns is one of the 12 listed categories.
C19_ClosedCategories ==
    \A p \in Procs :
        result[p].kind = "return" => result[p].category \in ALLOWED_CATEGORIES

\* C20: every group order_items emits holds at least one item: a category
\* of the layout to which no item was classified has no group, and the
\* empty item list gives no group at all.
C20_NoEmptyGroup ==
    oPhase = "emitted" =>
        /\ \A i \in 1..Len(output) : Len(output[i].items) >= 1
        /\ \A c \in {oLayout[i] : i \in 1..Len(oLayout)} :
              (\E i \in 1..Len(output) : output[i].zone = c)
                 => \E i \in 1..Len(grouped) : grouped[i][1] = c
        /\ oItems = << >> => output = << >>

\* one item ordered against a layout of four categories: one group
C20_Witness ==
    /\ oPhase = "emitted"
    /\ Len(oLayout) = 4
    /\ Len(oItems) = 1
    /\ Len(output) = 1

\* C21: two concurrent resolves of one uncached key can both miss, both run
\* the external chain and both write; each write replaces the row another
\* resolve wrote for the key, so the last writer's row stays, except that a
\* manual row of the key is left unchanged.
C21_LastWriterWins ==
    [][\A p \in Procs :
          (IsCacheWrite(p) /\ KeyOf(p) \in DOMAIN cache)
             => IF cache[KeyOf(p)].source = "manual"
                THEN cache'[KeyOf(p)] = cache[KeyOf(p)]
                ELSE Triple(cache'[KeyOf(p)])
                        = <<pend[p].category, pend[p].normalized_name, "ai">>]_vars

\* two callers missed the same key, both called the model and both wrote
\* different rows; the cache holds the row of one of them
C21_Witness ==
    \E p, q \in Procs :
        /\ p # q
        /\ pc[p] = "done" /\ pc[q] = "done"
        /\ KeyOf(p) = KeyOf(q)
        /\ cached[p] = << >> /\ cached[q] = << >>
        /\ calls[p] # << >> /\ calls[q] # << >>
        /\ writes[p] = 1 /\ writes[q] = 1
        /\ Triple(result[p]) # Triple(result[q])
        /\ Triple(cache[KeyOf(q)]) = Triple(result[q])

\* the step in which caller p starts a resolve of item it
IsLookup(p, it) == Resolve(p) /\ curItem'[p] = it

\* C22: the cache key of an item is its trimmed, lowercased form on the read
\* and on the write path: every key stored is in that form, a resolve of an
\* item reads the row stored under its trimmed, lowercased form (so it hits
\* what a resolve of another spelling wrote), and override_item and
\* cache_item given two spellings of one key produce the same table.
C22_NormalizedKey ==
    /\ [](/\ Key[" Milk "] = "milk"
          /\ \A k \in DOMAIN cache : k \in {"milk", "quirky item"}
          /\ \A x, y \in Items :
                Key[x] = Key[y] =>
                    /\ override_item(cache, x, "Pantry", "Oat Milk")
                          = override_item(cache, y, "Pantry", "Oat Milk")
                    /\ cache_item(cache, x, "Dairy", "Milk", "rules")
                          = cache_item(cache, y, "Dairy", "Milk", "rules"))
    /\ [][\A p \in Procs : \A it \in Items :
            (IsLookup(p, it) /\ StrLower(StrStrip(it)) \in DOMAIN cache)
               => /\ cached'[p] = <<cache[StrLower(StrStrip(it))]>>
                  /\ Triple(result'[p]) = Triple(cache[StrLower(StrStrip(it))])]_vars

\* a resolve of "milk" wrote a row and a resolve of " Milk " hit it
C22_Witness ==
    \E p, q \in Procs :
        /\ curItem[p] = "milk" /\ pc[p] = "done" /\ writes[p] = 1
        /\ curItem[q] = " Milk " /\ pc[q] = "done"
        /\ cached[q] # << >>
        /\ Triple(result[q]) = Triple(result[p])

\* the buckets, by their place in the table, that have a keyword occurring
\* in the lowercased item
MatchingBuckets(item) ==
    {i \in 1..Len(HEURISTIC_BUCKETS) :
        \E j \in 1..Len(HEURISTIC_BUCKETS[i][2]) :
            StrContains(StrLower(item), HEURISTIC_BUCKETS[i][2][j])}

\* what the keyword loop is to return for the items given to it
ExpectedHeuristic ==
    [it \in HeuristicItems |->
        CASE it = "ice cream sandwich" -> <<"Dairy", "Ice Cream Sandwich">>
          [] it = "ice cream" -> <<"Dairy", "Ice Cream">>
          [] it = "frozen peas" -> <<"Frozen", "Frozen Peas">>
          [] it = "cream cheese" -> <<"Dairy", "Cream Cheese">>
          [] it = "sourdough" -> <<"Bakery", "Sourdough">>
          [] it = "paper towel" -> <<"Household", "Paper Towel">>
          [] it = "Green Tea" -> <<"Beverages", "Green Tea">>
          [] it = "quirky item" -> <<"Misc", "Quirky Item">>
          [] it = "extra sharp cheddar cheese block"
                -> <<"Dairy", "Extra Sharp Cheddar">>]

\* C23: for every item the keyword loop returns a result, the same on every
\* call: the category of the first bucket in table order that has a keyword
\* occurring in the lowercased item, or Misc when no bucket has one, with
\* the title-cased item cut to its first three tokens as the name.
C23_HeuristicFirstBucket ==
    \A p \in Procs :
        (pc[p] \in {"done", "write"} /\ heur[p]) =>
            LET found == MatchingBuckets(curItem[p])
                first_bucket == CHOOSE i \in found : \A j \in found : i <= j
            IN  /\ Classification(p)[1]
                      = IF found = {} THEN "Misc"
                        ELSE HEURISTIC_BUCKETS[first_bucket][1]
                /\ Classification(p) = ExpectedHeuristic[curItem[p]]

\* the keyword loop ran twice on an item no bucket matches and gave Misc with
\* the same name both times
C23_Witness ==
    \E p \in Procs :
        /\ pc[p] = "done" /\ heur[p] /\ ops = 2
        /\ curItem[p] = "quirky item"
        /\ first[p].kind = "return"
        /\ <<first[p].category, first[p].normalized_name>> = <<"Misc", "Quirky Item">>
        /\ Classification(p) = <<"Misc", "Quirky Item">>

\* C24: when no credential is configured, a resolve that misses makes no
\* external call and its classification is the keyword loop's result for
\* the item.
C24_NoCredentialNoCalls ==
    \A p \in Procs :
        (apiKey = "" /\ pc[p] # "idle" /\ cached[p] = << >>) =>
            /\ pc[p] \in {"done", "write"}
            /\ calls[p] = << >>
            /\ heur[p]
            /\ Classification(p)
                  = <<Heuristic[curItem[p]].category,
                      Heuristic[curItem[p]].normalized_name>>

\* without credential a miss of " Milk " was classified Dairy, Milk with no call
C24_Witness ==
    \E p \in Procs :
        /\ apiKey = "" /\ pc[p] = "done" /\ cached[p] = << >>
        /\ curItem[p] = " Milk "
        /\ calls[p] = << >>
        /\ Triple(result[p]) = <<"Dairy", "Milk", "ai">>

\* the classification the keyword loop gives the item of caller p
HeuristicOf(p) ==
    <<Heuristic[curItem[p]].category, Heuristic[curItem[p]].normalized_name>>

\* C25: when the primary call returns EXCEPTION or NO_CLIENT, neither the
\* alternative nor the upgrade model is called (the resolve goes on to its
\* end with the primary call as its only call) and the classification is
\* the keyword loop's result for the item.
C25_AbandonAIPath ==
    [][\A p \in Procs : \A o \in ChainOutcomes :
          (o[1] \in {"EXCEPTION", "NO_CLIENT"} /\ PrimaryReturns(p, o))
          => /\ pc'[p] \in {"done", "write"}
             /\ calls'[p] = <<"primary">>
             /\ heur'[p]
             /\ Classification(p)' = HeuristicOf(p)]_vars

\* "milk" after a primary call that was the only call: the keyword loop's
\* Dairy / Milk is about to be written
C25_Witness ==
    /\ apiKey # ""
    /\ pc[Orderer] = "write"
    /\ curItem[Orderer] = "milk"
    /\ calls[Orderer] = <<"primary">>
    /\ heur[Orderer]
    /\ pend[Orderer] = Classified("Dairy", "Milk")

\* C26: the alternative model is called exactly when the primary call
\* returned RESOURCE_EXHAUSTED, once, as the second call; its answer is
\* handled as the primary's would be (an accepted answer is the result),
\* and RESOURCE_EXHAUSTED from the alternative or the upgrade model leads
\* to no further call.
C26_AlternativeOnce ==
    /\ [](\A p \in Procs :
            /\ pc[p] = "alternative" => calls[p] = <<"primary">>
            /\ \A i \in 1..Len(calls[p]) :
                  calls[p][i] = "alternative"
                     => i = 2 /\ calls[p][1] = "primary")
    /\ [][\A p \in Procs : \A o \in ChainOutcomes :
            /\ PrimaryReturns(p, o)
                  => (pc'[p] = "alternative" <=> o[1] = "RESOURCE_EXHAUSTED")
            /\ (AlternativeReturns(p, o) /\ o = <<"OK", GoodResponse>>)
                  => /\ pc'[p] = "write"
                     /\ pend'[p] = Classified("Dairy", "Organic Whole Milk")
                     /\ ~heur'[p]
            /\ (AlternativeReturns(p, o) /\ o[1] = "RESOURCE_EXHAUSTED")
                  => /\ pc'[p] \in {"done", "write"}
                     /\ calls'[p] = <<"primary", "alternative">>
                     /\ heur'[p]
            /\ (UpgradeReturns(p, o) /\ o[1] = "RESOURCE_EXHAUSTED")
                  => /\ pc'[p] \in {"done", "write"}
                     /\ calls'[p][Len(calls'[p])] = "upgrade"]_vars

\* the alternative model was called after the primary and its answer taken
C26_Witness ==
    /\ pc[Orderer] = "done"
    /\ calls[Orderer] = <<"primary", "alternative">>
    /\ ~heur[Orderer]
    /\ Triple(result[Orderer]) = <<"Dairy", "Organic Whole Milk", "ai">>

\* upgrade answers after which the claim expects Misc: a failed call, an
\* unparseable text, Misc, a category that is no allowed value
UpgradeLeavesMisc ==
    {o \in ChainOutcomes : o[1] # "OK"}
        \cup {<<"OK", r>> : r \in {UnfencedResponse, MalformedResponse, MiscResponse,
                                   BadCategoryResponse, MiscellaneousResponse}}

\* C27: when the primary or alternative answer validates to Misc, one call
\* to the upgrade model follows and no other; if that call fails, is
\* unparseable, answers Misc or answers a category that fails validation,
\* the classification's category is Misc; if it answers an allowed non-Misc
\* category, that category is the classification's.
C27_UpgradeOnce ==
    [][\A p \in Procs : \A o \in ChainOutcomes :
          /\ ((PrimaryReturns(p, o) \/ AlternativeReturns(p, o))
                  /\ o = <<"OK", MiscResponse>>)
                => /\ pc'[p] = "upgrade"
                   /\ pend'[p].category = "Misc"
          /\ (UpgradeReturns(p, o) /\ pend[p].category = "Misc")
                => /\ pc'[p] \in {"done", "write"}
                   /\ Cardinality({i \in 1..Len(calls'[p]) :
                                      calls'[p][i] = "upgrade"}) = 1
                   /\ o \in UpgradeLeavesMisc
                         => Classification(p)'[1] = "Misc"
                   /\ o = <<"OK", GoodResponse>>
                         => Classification(p)'[1] = "Dairy"]_vars

\* C28: the upgrade model is called only when the primary or alternative
\* answer parsed to the category Misc itself; an answer whose category is
\* no allowed value, such as a longer word beginning with "Misc", leads to
\* no upgrade call and to the keyword loop.
C28_UpgradeOnlyOnMisc ==
    [][\A p \in Procs : \A o \in ChainOutcomes :
          (PrimaryReturns(p, o) \/ AlternativeReturns(p, o))
          => /\ pc'[p] = "upgrade" => pend'[p].category = "Misc"
             /\ o = <<"OK", MiscellaneousResponse>>
                   => /\ pc'[p] \in {"done", "write"}
                      /\ heur'[p]
                      /\ Classification(p)' = HeuristicOf(p)]_vars

\* caller p's classification was taken from an answer of the external model
FromModel(p) ==
    /\ pc[p] \in {"write", "done"}
    /\ cached[p] = << >>
    /\ calls[p] # << >>
    /\ ~heur[p]
    /\ pc[p] = "done" => (result[p].kind = "return" /\ result[p].source = "ai")

\* C29: a classification taken from an answer of the external model has one
\* of the 12 allowed categories and a non-empty name of at most three
\* whitespace-separated tokens; an answer with an empty name is not
\* accepted.
C29_AcceptedAnswerValid ==
    \A p \in Procs :
        FromModel(p) =>
            /\ Classification(p)[1] \in ALLOWED_CATEGORIES
            /\ Classification(p)[2] # ""
            /\ Len(StrSplit(Classification(p)[2])) \in 1..3

\* answers on which ai_fallback_classify raises: a field is missing
RaisingOutcomes == {<<"OK", NoCategoryResponse>>, <<"OK", NoNameResponse>>}

\* the item as given, title-cased
TitledItem == [it \in ItemStrings |-> _prettify_name(JStr(it)).v]

\* C30: when the chain raises during a miss, the resolve returns Misc, the
\* title-cased item as given and the source "fallback"; it writes nothing
\* to the cache and raises nothing; no record of the cache has the source
\* "fallback".
C30_FallbackOnError ==
    /\ [](\A k \in DOMAIN cache : cache[k].source # "fallback")
    /\ [][\A p \in Procs : \A o \in RaisingOutcomes :
            (PrimaryReturns(p, o) \/ AlternativeReturns(p, o) \/ UpgradeReturns(p, o))
            => /\ pc'[p] = "done"
               /\ result'[p] = Returned("Misc", TitledItem[curItem[p]], "fallback")
               /\ writes'[p] = 0
               /\ cache' = cache]_vars

\* " Milk " resolved, the chain raised: the fallback triple is returned and
\* the key has no record
C30_Witness ==
    \E p \in Procs :
        /\ pc[p] = "done"
        /\ curItem[p] = " Milk "
        /\ calls[p] # << >>
        /\ Triple(result[p]) = <<"Misc", "Milk", "fallback">>
        /\ get_cached_item(cache, "milk") = << >>

\* db_layout of an order_items call for the store
DbLayout(store_id) ==
    IF store_id # NoStore THEN get_store_layout(store_id) ELSE GENERIC_LAYOUT

RECURSIVE ConcatCats(_)
\* the categories of a layout as listed, zone after zone, repeats included
ConcatCats(db_layout) ==
    IF db_layout = << >> THEN << >>
    ELSE db_layout[1][2] \o ConcatCats(Tail(db_layout))

\* the index at which c is first listed
FirstListed(listed, c) ==
    CHOOSE i \in 1..Len(listed) :
        listed[i] = c /\ \A j \in 1..(i - 1) : listed[j] # c

\* C31: the flattened layout of an order_items call holds each category of
\* the store's layout exactly once, in the order in which the categories are
\* first listed going through the zones in stored order and through each
\* zone's categories in stored order (which fixes it for a given layout);
\* [(Zone1,[Produce]),(Zone2,[Bakery,Dairy])] gives [Produce, Bakery, Dairy].
C31_FlattenFirstSeen ==
    /\ FlattenLayout(<< <<"Zone1", <<"Produce">> >>,
                        <<"Zone2", <<"Bakery", "Dairy">> >> >>, << >>)
          = <<"Produce", "Bakery", "Dairy">>
    /\ oPhase # "idle" =>
          LET listed == ConcatCats(DbLayout(oStore))
          IN  /\ {oLayout[i] : i \in 1..Len(oLayout)}
                    = {listed[i] : i \in 1..Len(listed)}
              /\ \A i, j \in 1..Len(oLayout) :
                    i < j => /\ oLayout[i] # oLayout[j]
                             /\ FirstListed(listed, oLayout[i])
                                   < FirstListed(listed, oLayout[j])

\* an order against store 3, whose layout lists Produce in two zones
C31_Witness ==
    /\ oPhase = "emitted"
    /\ oStore = 3
    /\ Len(ConcatCats(DbLayout(oStore))) = 4
    /\ oLayout = <<"Produce", "Bakery", "Dairy">>

\* what the resolve of an item of a finished order_items call returned: the
\* key's record when it has one (served, or written by the resolve itself),
\* else the keyword loop's unpersisted result
Resolved(it) ==
    IF Key[it] \in DOMAIN cache
    THEN [category |-> cache[Key[it]].category,
          normalized_name |-> cache[Key[it]].normalized_name]
    ELSE [category |-> Heuristic[it].category,
          normalized_name |-> Heuristic[it].normalized_name]

RECURSIVE NamesInOrder(_, _)
\* the names of the items classified to cat, in the order of the item list
NamesInOrder(items, cat) ==
    IF items = << >> THEN << >>
    ELSE (IF Resolved(items[1]).category = cat
          THEN <<Resolved(items[1]).normalized_name>>
          ELSE << >>) \o NamesInOrder(Tail(items), cat)

\* C32: in every emitted group the names stand in the order in which their
\* items were supplied: the group's list is the list of the names of the
\* items classified to its category, taken in the order of the input.
C32_SupplyOrder ==
    oPhase = "emitted" =>
        \A i \in 1..Len(output) :
            output[i].items = NamesInOrder(oItems, output[i].zone)

\* milk supplied before cream cheese: Milk stands before Cream Cheese
C32_Witness ==
    /\ oPhase = "emitted"
    /\ oItems = SameZoneItems
    /\ output = << Group("Dairy", <<"Milk", "Cream Cheese">>) >>

\* C33: on every return path of classify_item_with_cache (cache hit, model
\* answer, keyword loop, "fallback" degradation) the returned normalized
\* name is non-empty and has at most three whitespace-separated tokens.
C33_NameShape ==
    \A p \in Procs :
        (pc[p] = "done" /\ result[p].kind = "return") =>
            /\ result[p].normalized_name # ""
            /\ Len(StrSplit(result[p].normalized_name)) \in 1..3

\* C34: order_items puts the name of each input item in exactly one group:
\* the groups together hold as many names as there are input items, a
\* repeated item counted each time, and no category labels two groups, also
\* when the layout lists the category in several zones.
C34_EachItemOnce ==
    oPhase = "emitted" =>
        /\ EmittedCount(output) = Len(oItems)
        /\ \A i, j \in 1..Len(output) :
              output[i].zone = output[j].zone => i = j
        /\ \A k \in 1..Len(oItems) :
              \E i \in 1..Len(output) :
                  /\ output[i].zone = Resolved(oItems[k]).category
                  /\ InSeq(output[i].items, Resolved(oItems[k]).normalized_name)

\* the six items of the example against store 3, which lists Produce in
\* two zones: one Produce group with both Produce items
C34_Witness ==
    /\ oPhase = "emitted"
    /\ oStore = 3
    /\ oItems = ExampleItems
    /\ EmittedCount(output) = 6
    /\ output[1] = Group("Produce", <<"Bananas", "Spinach">>)
    /\ \A i \in 2..Len(output) : output[i].zone # "Produce"

\* the categories of the buckets that list the keyword
BucketsListing(kw) ==
    {HEURISTIC_BUCKETS[b][1] :
        b \in {bb \in 1..Len(HEURISTIC_BUCKETS) :
                 InSeq(HEURISTIC_BUCKETS[bb][2], kw)}}

\* C35: every keyword of HEURISTIC_BUCKETS, given by itself as the item, is
\* classified by the keyword loop into the category of the bucket that
\* lists it.
C35_KeywordOwnBucket ==
    \A p \in Procs :
        (pc[p] \in {"write", "done"} /\ cached[p] = << >>
            /\ curItem[p] \in Keywords)
        => Classification(p)[1] \in BucketsListing(curItem[p])

\* the key's record holds the category and the name caller p returned
RecordIsResult(p) ==
    /\ KeyOf(p) \in DOMAIN cache
    /\ cache[KeyOf(p)].category = result[p].category
    /\ cache[KeyOf(p)].normalized_name = result[p].normalized_name

\* C36 as stated: when a resolve that missed returns a non-Misc (category,
\* name, "ai"), the key's record right after the return holds that category
\* and name, whatever ran between its cache read and its cache write.
C36_Original ==
    [][\A p \in Procs :
          CacheWrite(p) => /\ result'[p].source = "ai"
                           /\ result'[p].category # "Misc"
                           /\ RecordIsResult(p)']_vars

\* C36 amended: the same, unless the key's record is manual when the resolve
\* writes (an override ran after its cache read): then the manual record
\* stays as it is and the resolve still returns its own (category, name,
\* "ai"). After another resolve's write the record is replaced and holds the
\* returned values.
C36_RecordAfterReturn ==
    [][\A p \in Procs :
          CacheWrite(p)
          => /\ result'[p].source = "ai"
             /\ result'[p].category # "Misc"
             /\ IF KeyOf(p) \in DOMAIN cache /\ cache[KeyOf(p)].source = "manual"
                THEN cache' = cache
                ELSE /\ RecordIsResult(p)'
                     /\ cache'[KeyOf(p)].source = "ai"]_vars

\* two resolves of the key milk missed; the other one wrote Dairy / Milk
\* first, this one's Dairy / Organic Whole Milk replaced it
C36_Witness ==
    \E p, q \in Procs :
        /\ p # q
        /\ pc[p] = "done" /\ pc[q] = "done"
        /\ KeyOf(p) = "milk" /\ KeyOf(q) = "milk"
        /\ cached[p] = << >> /\ cached[q] = << >>
        /\ writes[p] = 1 /\ writes[q] = 1
        /\ ~clean[p]
        /\ result[q].normalized_name = "Milk"
        /\ result[p].normalized_name = "Organic Whole Milk"
        /\ RecordIsResult(p)

\* C39: the keyword loop's result depends on the normalized key only: item
\* strings with the same trimmed, lowercased form get the same category and
\* the same normalized name, and a record the keyword loop cached for a key
\* is what the keyword loop returns for every item string of that key.
C39_KeyDeterminesHeuristic ==
    /\ \A a, b \in ItemStrings :
          Key[a] = Key[b] => Heuristic[a] = Heuristic[b]
    /\ \A k \in DOMAIN cache : \A it \in ItemStrings :
          Key[it] = k => /\ cache[k].category = Heuristic[it].category
                         /\ cache[k].normalized_name = Heuristic[it].normalized_name

\* "Green Tea" was resolved and cached under the key "green tea", an item
\* string of its own
C39_Witness ==
    /\ pc[Orderer] = "done"
    /\ curItem[Orderer] = "Green Tea"
    /\ "green tea" \in ItemStrings
    /\ "green tea" \in DOMAIN cache
    /\ Triple(cache["green tea"]) = <<"Beverages", "Green Tea", "ai">>

\* C37: from the empty cache, under resolves and manual overrides in any
\* interleaving, every record that is not manual has the source "ai" and a
\* category other than Misc, and no step removes a key from the cache.
C37_AutomatedRecords ==
    /\ [](\A k \in DOMAIN cache :
            cache[k].source # "manual"
               => cache[k].source = "ai" /\ cache[k].category # "Misc")
    /\ [][DOMAIN cache \subseteq DOMAIN cache']_vars

\* a record written by a resolve beside a manual one
C37_Witness ==
    /\ DOMAIN cache = {"milk", "quirky item"}
    /\ cache["milk"].source = "ai"
    /\ cache["milk"].category = "Dairy"
    /\ cache["quirky item"].source = "manual"

\* the item order_items is about to resolve has the key of an item it
\* resolved before in this call
SeenBefore ==
    \E j \in 1..(oIdx - 1) : Key[oItems[j]] = Key[oItems[oIdx]]

\* C38: within one order_items call the chain runs at most once for a key
\* whose classification is not Misc: the resolve of a later occurrence of the
\* key is a cache hit, served from the key's record without any call or
\* keyword loop.
C38_ChainOncePerKey ==
    [][(/\ OrderClassify
        /\ SeenBefore
        /\ Resolved(oItems[oIdx]).category # "Misc")
       => /\ Key[oItems[oIdx]] \in DOMAIN cache
          /\ cached'[Orderer] = <<cache[Key[oItems[oIdx]]]>>
          /\ pc'[Orderer] = "done"
          /\ calls'[Orderer] = << >>
          /\ ~heur'[Orderer]
          /\ Triple(result'[Orderer]) = Triple(cache[Key[oItems[oIdx]]])]_vars

\* milk given twice: the first occurrence wrote the record, the second was
\* served from it
C38_Witness ==
    /\ oPhase = "emitted"
    /\ oItems = <<"milk", "milk">>
    /\ cached[Orderer] # << >>
    /\ Triple(cached[Orderer][1]) = <<"Dairy", "Milk", "ai">>
    /\ writes[Orderer] = 0
    /\ ~heur[Orderer]
    /\ output = << Group("Dairy", <<"Milk", "Milk">>) >>

====
